---- MODULE Spec2Model ----
(***************************************************************************)
(* me.AnimationSheet (src/unnamed/part_000): the sprite animation          *)
(* controller.  One action per public method; every method is translated   *)
(* as a pure operator over the controller's fields, so that the nested     *)
(* calls (update -> setAnimationFrame -> setCurrentAnimation, the          *)
(* onComplete callback) are part of the calling action.                    *)
(*                                                                         *)
(* JavaScript values.  current.idx can be a number or NaN (x % 0), and an  *)
(* argument can be undefined, so these are records [t, v]:                 *)
(*   Num(3), NaN, undefined.                                               *)
(* Object identity.  this.current is a REFERENCE to one of the objects of  *)
(* this.anim.  addAnimation stores a NEW object under the name, so the     *)
(* current object may no longer be the one in this.anim: `shared` says     *)
(* whether this.current and this.anim[this.current.name] are the same      *)
(* object (writes through this.current then show in this.anim too).        *)
(*                                                                         *)
(* me.device (src/src/system/device.js): the capability flags set by       *)
(* _check and the accelerometer / device orientation watchers.  The        *)
(* platform (which globals exist, whether the Windows 8 sensor API hands   *)
(* out an accelerometer) is fixed from the start; the listeners are the    *)
(* registrations held by window and by the Windows 8 accelerometer.        *)
(***************************************************************************)
EXTENDS Integers, Sequences, FiniteSets, TLC

VARIABLES
    anim,            \* this.anim: name -> animation object
    current,         \* this.current: the active animation object
    shared,          \* this.current === this.anim[this.current.name]
    resetAnim,       \* this.resetAnim: null, a name, or a callback
    animationpause,  \* this.animationpause
    geom,            \* offset/width/height/_sourceAngle: the frame applied
    atlasIndices,    \* this.atlasIndices: null (spritesheet) or name table
    last,            \* observation of the last call: what, arguments, result
    platform,        \* the globals the script runs with
    listeners,       \* event type -> number of registrations of the handler
    hasAccelerometer,             \* me.device.hasAccelerometer
    hasDeviceOrientation,         \* me.device.hasDeviceOrientation
    accelInitialized,             \* private flag of the accelerometer watch
    deviceOrientationInitialized  \* private flag of the orientation watch

vars == <<anim, current, shared, resetAnim, animationpause, geom, atlasIndices, last,
          platform, listeners, hasAccelerometer, hasDeviceOrientation,
          accelInitialized, deviceOrientationInitialized>>
\* the fields of me.device and of its platform
deviceVars == <<platform, listeners, hasAccelerometer, hasDeviceOrientation,
                accelInitialized, deviceOrientationInitialized>>
\* the fields of the animation sheet
sheetVars == <<anim, current, shared, resetAnim, animationpause, geom, atlasIndices>>

-----------------------------------------------------------------------------
(* Bounds of the model *)

\* number of frames of the texture atlas
AtlasSize == 3
\* ticks are not issued once the countdown is this far below zero
MaxDebt == 100
\* largest index passed to setAnimationFrame
MaxSeek == 3

\* this.animationspeed, the default delay between frames (ms)
animationspeed == 100

\* animation ids used by the callers
Names == {"default", "walk"}
\* ids passed to addAnimation after init ("walk" is undefined until then)
DefNames == {"walk"}
\* explicit animationspeed argument of addAnimation; 0: the argument is absent
Absent == 0
Slow == 200
\* dt arguments of update
Deltas == {0, 100, 200}

-----------------------------------------------------------------------------
(* JavaScript values *)

Num(n) == [t |-> "number", v |-> n]
NaN == [t |-> "NaN", v |-> 0]
undefined == [t |-> "undefined", v |-> 0]
IsNum(x) == x.t = "number"

\* x || 0 : undefined, NaN and 0 are falsy
OrZero(x) == IF IsNum(x) THEN x ELSE Num(0)

\* a % b of JavaScript: NaN for b = 0, the sign of the dividend otherwise
JSRem(a, b) ==
    IF ~IsNum(a) \/ b = 0 THEN NaN
    ELSE IF a.v >= 0 THEN Num(a.v % b)
    ELSE Num(0 - ((0 - a.v) % b))

\* variant: the index skips a frame
IncrTwice(x) == IF IsNum(x) THEN Num(x.v + 2) ELSE NaN

\* ++x
Incr(x) == IF IsNum(x) THEN Num(x.v + 1) ELSE NaN

-----------------------------------------------------------------------------
(* The texture atlas *)

\* a frame descriptor {offset, width, height, angle} is named by its ordinal
\* textureAtlas[i]; an index outside the atlas reads undefined
NoFrame == 0 - 1
textureAtlas(i) == IF i \in 0..(AtlasSize - 1) THEN i ELSE NoFrame

\* settings.indices of an atlas: frame name k -> ordinal
AtlasTable == [k \in 0..(AtlasSize - 1) |-> AtlasSize - 1 - k]
NullIndices == [null |-> TRUE, map |-> AtlasTable]
TextureIndices == [null |-> FALSE, map |-> AtlasTable]

\* entries of the index list of addAnimation
N(k) == [t |-> "number", v |-> k]
S(k) == [t |-> "string", v |-> k]

\* the index arguments: null, or a list of ordinals / frame names
NullIndex == [null |-> TRUE, list |-> <<>>]
List(l) == [null |-> FALSE, list |-> l]
\* lists of ordinals: no frame, one frame, two frames
Empty == List(<<>>)
OneFrame == List(<<N(1)>>)
TwoFrames == List(<<N(0), N(1)>>)
\* lists with frame names
NameLists == {List(<<S(0), S(1)>>), List(<<N(0), S(1)>>)}

\* the onComplete arguments of setCurrentAnimation: absent, an animation id,
\* a callback, or a callback that itself calls setCurrentAnimation(name)
NoPolicy == [kind |-> "null", name |-> ""]
Policies ==
    {NoPolicy}
    \cup { [kind |-> "string", name |-> n] : n \in Names }
    \cup { [kind |-> "function", name |-> n] : n \in {"", "default"} }
\* what a callback can return
CallbackReturns == {"false", "true", "undefined"}

\* the idx arguments of setAnimationFrame
SeekArgs == {undefined} \cup { Num(i) : i \in 0..MaxSeek }

-----------------------------------------------------------------------------
(* The controller as a value: the methods are operators from controller to  *)
(* controller.  thrown is "" or the exception the call ended with; cb and   *)
(* chain record that the callback was invoked / the chain switch was made,  *)
(* calls how many times the callback was invoked and seen the active        *)
(* animation as the callback found it.                                      *)

\* no animation object
NoObject == [name |-> "", frame |-> <<>>, idx |-> Num(0), length |-> 0,
             animationspeed |-> 0, nextFrame |-> 0]

Self == [anim |-> anim, current |-> current, shared |-> shared,
         resetAnim |-> resetAnim, animationpause |-> animationpause,
         geom |-> geom, atlasIndices |-> atlasIndices,
         thrown |-> "", ret |-> "undefined", cb |-> FALSE, chain |-> FALSE,
         calls |-> 0, seen |-> NoObject]

\* a write through the reference this.current
WriteCurrent(s, obj) ==
    [s EXCEPT !.current = obj,
              !.anim = IF s.shared THEN [s.anim EXCEPT ![obj.name] = obj] ELSE s.anim]

Min(A) == CHOOSE x \in A : \A y \in A : x <= y

-----------------------------------------------------------------------------
(* me.Sprite.update(dt), the inherited update: true only while the sprite   *)
(* flickers, which this controller never starts.                            *)
SpriteUpdate == "false"

\* variant: the index is clamped to the last frame instead of wrapping
setAnimationFrameClamp(s, idx) ==
    LET i == OrZero(idx)
        newIdx == IF i.v >= s.current.length THEN Num(s.current.length - 1) ELSE i
        s1 == WriteCurrent(s, [s.current EXCEPT !.idx = newIdx])
    IN IF newIdx.v + 1 \in 1..Len(s1.current.frame)
       THEN [s1 EXCEPT !.geom = s1.current.frame[newIdx.v + 1]]
       ELSE [s1 EXCEPT !.thrown = "TypeError"]

(* setAnimationFrame(idx): idx is assigned before the frame is read, and    *)
(* reading a field of an undefined frame throws a TypeError.                *)
setAnimationFrame(s, idx) ==
    LET newIdx == JSRem(OrZero(idx), s.current.length)
        s1 == WriteCurrent(s, [s.current EXCEPT !.idx = newIdx])
        frame == IF IsNum(newIdx) /\ (newIdx.v + 1) \in 1..Len(s1.current.frame)
                 THEN s1.current.frame[newIdx.v + 1]
                 ELSE NoFrame
    IN IF frame = NoFrame
       THEN [s1 EXCEPT !.thrown = "TypeError"]
       ELSE [s1 EXCEPT !.geom = frame]

\* variant: the speed argument is stored as given, absent or not
SpeedAsGiven(speed) == speed

\* animationspeed || this.animationspeed
SpeedOrDefault(speed) == IF speed # 0 THEN speed ELSE animationspeed

\* if (index == null): "create a default animation with all frame"
EveryFrameIfNull(index) ==
    IF index.null THEN [j \in 1..AtlasSize |-> N(j - 1)] ELSE index.list

\* variant: a frame name throws whatever the source is
ThrowsOnAnyName(s, e) == e.t = "string"

\* a string entry while this.atlasIndices === null throws
ThrowsOnName(s, e) == e.t = "string" /\ s.atlasIndices.null

\* variant: the animation just defined also becomes the active one
StoreAnimationAndSelect(s, name, obj) ==
    [s EXCEPT !.anim = (name :> obj) @@ s.anim,
              !.current = obj,
              !.shared = TRUE]

\* this.anim[name] = {...}: a new object replaces the one stored under the
\* name; this.current, if it was that one, goes on referring to the old object
StoreAnimation(s, name, obj) ==
    [s EXCEPT !.anim = (name :> obj) @@ s.anim,
              !.shared = s.shared /\ s.current.name # name]

(* addAnimation(name, index, animationspeed): the new object is stored      *)
(* under the name first, then filled frame by frame; a frame name on a      *)
(* spritesheet throws in the middle of the loop, before length is set.      *)
addAnimation(s, name, index, speed) ==
    LET obj0 == [name |-> name, frame |-> <<>>, idx |-> Num(0), length |-> 0,
                 animationspeed |-> SpeedOrDefault(speed),
                 nextFrame |-> 0]
        list == EveryFrameIfNull(index)
        bad == { i \in 1..Len(list) : ThrowsOnName(s, list[i]) }
        stop == IF bad = {} THEN Len(list) + 1 ELSE Min(bad)
        resolve(e) == IF e.t = "number"
                      THEN textureAtlas(e.v)
                      ELSE textureAtlas(s.atlasIndices.map[e.v])
        frame == [i \in 1..(stop - 1) |-> resolve(list[i])]
        obj == [obj0 EXCEPT !.frame = frame,
                            !.length = IF bad = {} THEN Len(frame) ELSE 0]
    IN [StoreAnimation(s, name, obj)
           EXCEPT !.thrown = IF bad = {} THEN "" ELSE "Error"]

\* variant: the onComplete argument is stored before the name is looked up
setCurrentAnimationEager(s, name, policy) ==
    IF name \in DOMAIN s.anim
    THEN LET s1 == [s EXCEPT !.current = s.anim[name], !.shared = TRUE,
                             !.resetAnim = policy]
             s2 == setAnimationFrame(s1, s1.current.idx)
         IN IF s2.thrown # "" THEN s2
            ELSE WriteCurrent(s2, [s2.current EXCEPT
                                      !.nextFrame = s2.current.animationspeed])
    ELSE [s EXCEPT !.resetAnim = policy, !.thrown = "Error"]

(* setCurrentAnimation(name, resetAnim) *)
setCurrentAnimation(s, name, policy) ==
    IF name \in DOMAIN s.anim
    THEN LET s1 == [s EXCEPT !.current = s.anim[name], !.shared = TRUE,
                             !.resetAnim = policy]
             s2 == setAnimationFrame(s1, s1.current.idx)
         IN IF s2.thrown # "" THEN s2
            ELSE WriteCurrent(s2, [s2.current EXCEPT
                                      !.nextFrame = s2.current.animationspeed])
    ELSE [s EXCEPT !.thrown = "Error"]

\* variant: what the callback asks for is not applied during the update
InvokeCallbackDeferred(s) ==
    [s EXCEPT !.cb = TRUE, !.calls = @ + 1, !.seen = s.current]

\* this.resetAnim(): the callback runs (and may call setCurrentAnimation)
InvokeCallback(s) ==
    LET s1 == [s EXCEPT !.cb = TRUE, !.calls = @ + 1, !.seen = s.current]
    IN IF s.resetAnim.name = ""
       THEN s1
       ELSE setCurrentAnimation(s1, s.resetAnim.name, NoPolicy)

\* variant: the overshoot of the countdown is carried into the next frame
NextFrameTimestampCarry(s) ==
    [WriteCurrent(s, [s.current EXCEPT
                         !.nextFrame = s.current.animationspeed + s.current.nextFrame])
        EXCEPT !.ret = "true"]

\* variant: the countdown restarts from the sheet's default speed
NextFrameTimestampDefault(s) ==
    [WriteCurrent(s, [s.current EXCEPT !.nextFrame = animationspeed])
        EXCEPT !.ret = "true"]

\* "set next frame timestamp" and return true
NextFrameTimestamp(s) ==
    [WriteCurrent(s, [s.current EXCEPT !.nextFrame = s.current.animationspeed])
        EXCEPT !.ret = "true"]

\* variant: the hold returns false but leaves the index where the wrap put it
HoldFirstFrame(s) == [s EXCEPT !.ret = "false"]

\* variant: the hold also restarts the countdown
HoldLastFrameRearmed(s) ==
    LET s1 == WriteCurrent(s, [s.current EXCEPT !.idx = Num(s.current.length - 1),
                                                !.nextFrame = s.current.animationspeed])
        s2 == setAnimationFrame(s1, s1.current.idx)
    IN IF s2.thrown # "" THEN s2 ELSE [s2 EXCEPT !.ret = "false"]

\* the callback returned false: stay on the last frame and return false
HoldLastFrame(s) ==
    LET s1 == WriteCurrent(s, [s.current EXCEPT !.idx = Num(s.current.length - 1)])
        s2 == setAnimationFrame(s1, s1.current.idx)
    IN IF s2.thrown # "" THEN s2 ELSE [s2 EXCEPT !.ret = "false"]

\* variant: the policy is consulted on every advance
AtAnyFrame(s) == s.resetAnim.kind # "null"

\* this.current.idx === 0 && this.resetAnim
AtEndOfStrip(s) == s.current.idx = Num(0) /\ s.resetAnim.kind # "null"

\* variant: !this.resetAnim(), so that no return value holds as well
ReturnedFalsy(cbRet) == cbRet # "true"

\* this.resetAnim() === false
ReturnedFalse(cbRet) == cbRet = "false"

\* variant: the chain switch installs the same id as the target's policy
EndOfStripRechained(s, cbRet) ==
    IF AtEndOfStrip(s)
    THEN IF s.resetAnim.kind = "string"
         THEN LET s1 == setCurrentAnimation([s EXCEPT !.chain = TRUE],
                                            s.resetAnim.name, s.resetAnim)
              IN IF s1.thrown # "" THEN s1 ELSE NextFrameTimestamp(s1)
         ELSE LET s1 == InvokeCallback(s)
              IN IF s1.thrown # "" THEN s1
                 ELSE IF ReturnedFalse(cbRet) THEN HoldLastFrame(s1)
                 ELSE NextFrameTimestamp(s1)
    ELSE NextFrameTimestamp(s)

\* "switch animation if we reach the end of the strip and a callback is defined"
EndOfStrip(s, cbRet) ==
    IF AtEndOfStrip(s)
    THEN IF s.resetAnim.kind = "string"
         THEN LET s1 == setCurrentAnimation([s EXCEPT !.chain = TRUE],
                                            s.resetAnim.name, NoPolicy)
              IN IF s1.thrown # "" THEN s1 ELSE NextFrameTimestamp(s1)
         ELSE LET s1 == InvokeCallback(s)
              IN IF s1.thrown # "" THEN s1
                 ELSE IF ReturnedFalse(cbRet) THEN HoldLastFrame(s1)
                 ELSE NextFrameTimestamp(s1)
    ELSE NextFrameTimestamp(s)

\* variant: a countdown that reaches exactly zero does not advance
ExpiredStrict(nextFrame) == nextFrame < 0

\* this.current.nextFrame <= 0
Expired(nextFrame) == nextFrame <= 0

\* variant: the pause flag is not consulted
AnimatingWhilePaused(s) == s.current.length > 1

\* variant: a single frame is animated too
AnimatingSingleFrame(s) == ~s.animationpause

\* "update animation if necessary":
\* !this.animationpause && this.current.length > 1
Animating(s) == ~s.animationpause /\ s.current.length > 1

(* update(dt); cbRet is what the callback returns if it is invoked *)
update(s, dt, cbRet) ==
    IF Animating(s)
    THEN LET s1 == WriteCurrent(s, [s.current EXCEPT !.nextFrame = @ - dt])
         IN IF Expired(s1.current.nextFrame)
            THEN LET s2 == WriteCurrent(s1, [s1.current EXCEPT !.idx = Incr(@)])
                     s3 == setAnimationFrame(s2, s2.current.idx)
                 IN IF s3.thrown # "" THEN s3 ELSE EndOfStrip(s3, cbRet)
            ELSE [s1 EXCEPT !.ret = SpriteUpdate]
    ELSE [s EXCEPT !.ret = SpriteUpdate]

-----------------------------------------------------------------------------
(* me.device *)

\* the platforms: a browser (no Windows global) with or without the
\* DeviceMotionEvent / DeviceOrientationEvent interfaces, or a Windows 8
\* device, whose Accelerometer.getDefault() returns the sensor or null
Platforms ==
    { p \in [Windows : BOOLEAN, DeviceMotionEvent : BOOLEAN,
             DeviceOrientationEvent : BOOLEAN, sensor : BOOLEAN] :
        p.sensor => p.Windows }
\* a desktop browser without motion or orientation events
Desktop == [Windows |-> FALSE, DeviceMotionEvent |-> FALSE,
            DeviceOrientationEvent |-> FALSE, sensor |-> FALSE]

EventTypes == {"devicemotion", "readingchanged", "deviceorientation"}
NoListeners == [e \in EventTypes |-> 0]

\* target.addEventListener(type, handler, false): a handler that is already
\* registered for the type is not registered again
addEventListener(l, type) == [l EXCEPT ![type] = IF @ = 0 THEN 1 ELSE @]
\* target.removeEventListener(type, handler, false)
removeEventListener(l, type) == [l EXCEPT ![type] = 0]

\* me.device as a value
Device == [platform |-> platform, listeners |-> listeners,
           hasAccelerometer |-> hasAccelerometer,
           hasDeviceOrientation |-> hasDeviceOrientation,
           accelInitialized |-> accelInitialized,
           deviceOrientationInitialized |-> deviceOrientationInitialized,
           thrown |-> "", ret |-> "undefined"]

\* the object as the module creates it: nothing detected, nothing watched
NewDevice(p) ==
    [platform |-> p, listeners |-> NoListeners,
     hasAccelerometer |-> FALSE, hasDeviceOrientation |-> FALSE,
     accelInitialized |-> FALSE, deviceOrientationInitialized |-> FALSE,
     thrown |-> "", ret |-> "undefined"]

\* _check(): "accelerometer detection" and "device motion detection"
check(d) ==
    [d EXCEPT !.hasAccelerometer = d.platform.DeviceMotionEvent \/ d.platform.Windows,
              !.hasDeviceOrientation = @ \/ d.platform.DeviceOrientationEvent]

\* watchAccelerometer()
watchAccelerometer(d) ==
    IF d.hasAccelerometer
    THEN IF ~d.accelInitialized
         THEN LET l == IF ~d.platform.Windows
                       THEN addEventListener(d.listeners, "devicemotion")
                       ELSE IF d.platform.sensor
                            THEN addEventListener(d.listeners, "readingchanged")
                            ELSE d.listeners
              IN [d EXCEPT !.listeners = l, !.accelInitialized = TRUE, !.ret = "true"]
         ELSE [d EXCEPT !.ret = "true"]
    ELSE [d EXCEPT !.ret = "false"]

\* unwatchAccelerometer(): on Windows 8 the sensor is looked up as
\* Windows.Device.Sensors, and Windows has Devices but no Device: reading
\* Sensors of undefined throws a TypeError before anything is removed
unwatchAccelerometer(d) ==
    IF d.accelInitialized
    THEN IF ~d.platform.Windows
         THEN [d EXCEPT !.listeners = removeEventListener(@, "devicemotion"),
                        !.accelInitialized = FALSE]
         ELSE [d EXCEPT !.thrown = "TypeError"]
    ELSE d

\* watchDeviceOrientation()
watchDeviceOrientation(d) ==
    IF d.hasDeviceOrientation /\ ~d.deviceOrientationInitialized
    THEN [d EXCEPT !.listeners = addEventListener(@, "deviceorientation"),
                   !.deviceOrientationInitialized = TRUE,
                   !.ret = "false"]
    ELSE [d EXCEPT !.ret = "false"]

\* unwatchDeviceOrientation()
unwatchDeviceOrientation(d) ==
    IF d.deviceOrientationInitialized
    THEN [d EXCEPT !.listeners = removeEventListener(@, "deviceorientation"),
                   !.deviceOrientationInitialized = FALSE]
    ELSE d

-----------------------------------------------------------------------------
(* The state machine *)

\* the observation of a call: the method, its arguments, what it returned or
\* threw, what the callback returned if it ran ("" if not), the chain switch,
\* how many times it ran and the active animation it found, and for update
\* the active animation as it was when the call was made
Call(op) == [op |-> op, name |-> "", index |-> NullIndex, speed |-> Absent,
             policy |-> NoPolicy, idx |-> undefined, dt |-> 0,
             ret |-> "undefined", cb |-> "", chain |-> FALSE, from |-> NoObject,
             calls |-> 0, seen |-> NoObject]

\* the fields after a call, and what the caller saw of it
Commit(s, call) ==
    /\ anim' = s.anim
    /\ current' = s.current
    /\ shared' = s.shared
    /\ resetAnim' = s.resetAnim
    /\ animationpause' = s.animationpause
    /\ geom' = s.geom
    /\ atlasIndices' = s.atlasIndices
    /\ UNCHANGED deviceVars
    /\ last' = [call EXCEPT !.ret = IF s.thrown # "" THEN s.thrown ELSE s.ret,
                            !.cb = IF s.cb THEN call.cb ELSE "",
                            !.chain = s.chain,
                            !.calls = s.calls,
                            !.seen = s.seen]

\* this.current = null, this.anim = {} : the fields before init's calls
Blank(indices) ==
    [anim |-> [n \in {} |-> NoObject], current |-> NoObject, shared |-> FALSE,
     resetAnim |-> NoPolicy, animationpause |-> FALSE, geom |-> NoFrame,
     atlasIndices |-> indices,
     thrown |-> "", ret |-> "undefined", cb |-> FALSE, chain |-> FALSE,
     calls |-> 0, seen |-> NoObject]

\* variant: the default animation is created but not made the current one
initWithoutSelect(indices) ==
    addAnimation(Blank(indices), "default", NullIndex, Absent)

\* init(x, y, settings): a spritesheet or an atlas with a name table
init(indices) ==
    setCurrentAnimation(addAnimation(Blank(indices), "default",
                                     NullIndex, Absent),
                        "default", NoPolicy)

Init ==
    \E indices \in {NullIndices, TextureIndices}, p \in Platforms :
        LET s == init(indices)
            d == NewDevice(p)
        IN /\ anim = s.anim
           /\ current = s.current
           /\ shared = s.shared
           /\ resetAnim = s.resetAnim
           /\ animationpause = s.animationpause
           /\ geom = s.geom
           /\ atlasIndices = s.atlasIndices
           /\ last = Call("init")
           /\ platform = d.platform
           /\ listeners = d.listeners
           /\ hasAccelerometer = d.hasAccelerometer
           /\ hasDeviceOrientation = d.hasDeviceOrientation
           /\ accelInitialized = d.accelInitialized
           /\ deviceOrientationInitialized = d.deviceOrientationInitialized

\* the fields of me.device after a call, and what the caller saw of it
CommitDevice(d, op) ==
    /\ listeners' = d.listeners
    /\ hasAccelerometer' = d.hasAccelerometer
    /\ hasDeviceOrientation' = d.hasDeviceOrientation
    /\ accelInitialized' = d.accelInitialized
    /\ deviceOrientationInitialized' = d.deviceOrientationInitialized
    /\ UNCHANGED platform
    /\ UNCHANGED sheetVars
    /\ last' = [Call(op) EXCEPT !.ret = IF d.thrown # "" THEN d.thrown ELSE d.ret]

Check == CommitDevice(check(Device), "_check")
WatchAccelerometer == CommitDevice(watchAccelerometer(Device), "watchAccelerometer")
UnwatchAccelerometer == CommitDevice(unwatchAccelerometer(Device), "unwatchAccelerometer")
WatchDeviceOrientation ==
    CommitDevice(watchDeviceOrientation(Device), "watchDeviceOrientation")
UnwatchDeviceOrientation ==
    CommitDevice(unwatchDeviceOrientation(Device), "unwatchDeviceOrientation")

AddAnimation(names, indexes, speeds) ==
    \E name \in names, index \in indexes, speed \in speeds :
        Commit(addAnimation(Self, name, index, speed),
               [Call("addAnimation") EXCEPT !.name = name, !.index = index,
                                            !.speed = speed])

SetCurrentAnimation(names, policies) ==
    \E name \in names, policy \in policies :
        Commit(setCurrentAnimation(Self, name, policy),
               [Call("setCurrentAnimation") EXCEPT !.name = name, !.policy = policy])

SetAnimationFrame(idxs) ==
    \E idx \in idxs :
        Commit(setAnimationFrame(Self, idx),
               [Call("setAnimationFrame") EXCEPT !.idx = idx])

\* update(dt) of the game loop; a tick is not issued if it would leave the
\* countdown more than MaxDebt below zero
Update(dts) ==
    \E dt \in dts, cbRet \in CallbackReturns :
        LET s == update(Self, dt, cbRet)
        IN /\ s.current.nextFrame >= 0 - MaxDebt
           /\ Commit(s, [Call("update") EXCEPT !.dt = dt, !.cb = cbRet,
                                             !.from = current])

\* this.animationpause = true / false, set by the owner
Pause ==
    /\ ~animationpause
    /\ Commit([Self EXCEPT !.animationpause = TRUE], Call("pause"))

Resume ==
    /\ animationpause
    /\ Commit([Self EXCEPT !.animationpause = FALSE], Call("resume"))

(* Playback on a spritesheet: "walk" is defined from ordinals, with its own *)
(* speed, and may be redefined at any time.                                *)
InitSheet == Init /\ atlasIndices.null /\ platform = Desktop

DefineWalk == AddAnimation(DefNames, {Empty, OneFrame, TwoFrames}, {Slow})
Select == SetCurrentAnimation(Names, Policies)
Seek == SetAnimationFrame(SeekArgs)
Tick == Update(Deltas)

Next ==
    \/ DefineWalk
    \/ Select
    \/ Seek
    \/ Tick
    \/ Pause
    \/ Resume

Spec == InitSheet /\ [][Next]_vars

(* Definition: a spritesheet or an atlas; "walk" is defined and redefined   *)
(* from every kind of index argument, with or without a                    *)
(* speed, and played back with ticks of one frame's default duration.      *)
DefinePolicies == {NoPolicy, [kind |-> "string", name |-> "walk"]}
Define == AddAnimation(DefNames, {NullIndex, Empty, OneFrame, TwoFrames} \cup NameLists,
                       {Absent, Slow})
SelectDefined == SetCurrentAnimation(Names, DefinePolicies)
TickFrame == Update({animationspeed})

NextDef ==
    \/ Define
    \/ SelectDefined
    \/ Seek
    \/ TickFrame

InitDef == Init /\ platform = Desktop

SpecDef == InitDef /\ [][NextDef]_vars

(* me.device on every platform: the capabilities are detected by _check,   *)
(* at boot or again later, and the watchers are started and stopped in any *)
(* order.                                                                   *)
InitDevice == Init /\ atlasIndices.null

NextDevice ==
    \/ Check
    \/ WatchAccelerometer
    \/ UnwatchAccelerometer
    \/ WatchDeviceOrientation
    \/ UnwatchDeviceOrientation

SpecDevice == InitDevice /\ [][NextDevice]_vars

-----------------------------------------------------------------------------
(* Properties.  A step of the machine is one call; last' is the call the    *)
(* step makes, the unprimed fields are the controller before the call and   *)
(* the primed ones the controller after it.                                 *)

Ticked == last'.op = "update"
Selected == last'.op = "setCurrentAnimation"
\* the index after idx in the active animation
NextIdx == JSRem(Incr(current.idx), current.length)
\* an update that gets past the pause / single frame test
Running == ~animationpause /\ current.length > 1

\* C1: setCurrentAnimation on a defined name leaves that animation active,
\* at frame 0, with its countdown at its own animationspeed.
\* (Stated for animations that have frames.)  Violated: idx is kept.
C1_SelectRestarts ==
    [][(Selected /\ last'.name \in DOMAIN anim /\ anim[last'.name].length > 0)
         => /\ current'.name = last'.name
            /\ current'.idx = Num(0)
            /\ current'.nextFrame = current'.animationspeed]_vars

\* C2: the index of the active animation is always a valid index into its
\* frames.  Violated: an animation defined from an empty list has length 0
\* and selecting it makes idx NaN.
C2_IndexInRange ==
    /\ IsNum(current.idx)
    /\ 0 <= current.idx.v
    /\ current.idx.v < Len(current.frame)

\* C3 as stated: when an advancing tick overshoots the countdown by r, the
\* next frame's countdown is animationspeed - r.  Violated.
C3_OvershootCarried ==
    [][(Ticked /\ Running /\ last'.ret = "true" /\ ~last'.chain /\ last'.cb = ""
          /\ current.nextFrame - last'.dt < 0)
         => current'.nextFrame
              = current'.animationspeed + (current.nextFrame - last'.dt)]_vars

\* C3 amended: when an advancing tick overshoots the countdown, the overshoot
\* is discarded: the next frame's countdown is the full animationspeed.
C3_OvershootDiscarded ==
    [][(Ticked /\ Running /\ last'.ret = "true" /\ ~last'.chain /\ last'.cb = ""
          /\ current.nextFrame - last'.dt < 0)
         => /\ current'.nextFrame = current'.animationspeed
            /\ current'.idx = NextIdx]_vars

\* a tick of 200 ms on "default" (100 ms a frame) has advanced it: the
\* countdown was overshot by at least 100 ms
C3_Witness ==
    /\ last.op = "update" /\ last.ret = "true" /\ ~last.chain /\ last.cb = ""
    /\ last.from.nextFrame - last.dt < 0
    /\ current.nextFrame = current.animationspeed

\* C4: after every update that returns true, the countdown equals the
\* animationspeed of the animation active at the end of that update.
C4_TrueTickRestartsCountdown ==
    (last.op = "update" /\ last.ret = "true")
        => current.nextFrame = current.animationspeed

\* a chain switch from "default" into "walk", which has its own speed
C4_Witness ==
    /\ last.op = "update" /\ last.ret = "true" /\ last.chain
    /\ last.from.name = "default" /\ current.name = "walk"
    /\ current.animationspeed = Slow /\ current.nextFrame = Slow

\* C5: with no onComplete, an update of a running animation returns true and
\* moves idx to (idx + 1) mod length if and only if nextFrame - dt <= 0;
\* otherwise it returns false, keeps idx and stores nextFrame - dt.
C5_AdvanceIffExpired ==
    [][(Ticked /\ Running /\ resetAnim.kind = "null")
         => IF current.nextFrame - last'.dt <= 0
            THEN /\ last'.ret = "true"
                 /\ current'.idx = Num((current.idx.v + 1) % current.length)
            ELSE /\ last'.ret = "false"
                 /\ current'.idx = current.idx
                 /\ current'.nextFrame = current.nextFrame - last'.dt]_vars

\* the countdown reached exactly zero and the frame advanced past frame 1
C5_Witness ==
    /\ last.op = "update" /\ last.ret = "true" /\ resetAnim.kind = "null"
    /\ last.from.nextFrame - last.dt = 0
    /\ last.from.idx = Num(1) /\ current.idx = Num(2)

\* the policy was acted on by the call just made
PolicyActed == last'.chain \/ last'.cb # ""
\* a callback that does nothing but return
PlainCallback == resetAnim = [kind |-> "function", name |-> ""]

\* C6: a wrap from the last frame to frame 0 with no onComplete returns true
\* and changes neither the active animation, the pause flag nor the policy;
\* the countdown restarts, so playback keeps cycling.
C6_WrapWithoutPolicy ==
    [][(Ticked /\ Running /\ resetAnim.kind = "null"
          /\ current.idx = Num(current.length - 1)
          /\ current.nextFrame - last'.dt <= 0)
         => /\ last'.ret = "true"
            /\ current'.idx = Num(0)
            /\ current'.name = current.name /\ current'.frame = current.frame
            /\ current'.nextFrame = current.animationspeed
            /\ animationpause' = animationpause
            /\ resetAnim' = resetAnim
            /\ ~PolicyActed]_vars

\* the two-frame "walk" has just wrapped from frame 1 to frame 0
C6_Witness ==
    /\ last.op = "update" /\ last.ret = "true" /\ resetAnim.kind = "null"
    /\ last.from.name = "walk" /\ last.from.length = 2 /\ last.from.idx = Num(1)
    /\ current.name = "walk" /\ current.idx = Num(0)

\* C7: the policy (chain switch or callback) is acted on by a call if and
\* only if the call is an update that advanced the frame to index 0 while a
\* policy was set: never by a tick that does not advance, an advance to
\* another index, a paused tick or setAnimationFrame.
C7_PolicyOnlyOnWrap ==
    [][PolicyActed <=> (/\ Ticked /\ Running
                        /\ current.nextFrame - last'.dt <= 0
                        /\ NextIdx = Num(0)
                        /\ resetAnim.kind # "null")]_vars

\* a callback is installed and an update has advanced to a frame other than
\* 0 without invoking it
C7_Witness ==
    /\ last.op = "update" /\ last.ret = "true" /\ last.cb = "" /\ ~last.chain
    /\ resetAnim.kind = "function" /\ current.idx = Num(1)

\* C8: when the policy is the name T of an animation that has frames, the
\* update that wraps ends with T active at frame 0 and returns true.
\* Violated: T resumes at the index it was left at.
C8_ChainRestartsTarget ==
    [][(Ticked /\ last'.chain /\ resetAnim.name \in DOMAIN anim
          /\ anim[resetAnim.name].length > 0)
         => /\ current'.name = resetAnim.name
            /\ current'.idx = Num(0)
            /\ last'.ret = "true"]_vars

\* the controller is on hold: a plain callback is installed, the active
\* animation is on its last frame and its countdown is used up
Held ==
    /\ PlainCallback
    /\ current.length > 1
    /\ current.idx = Num(current.length - 1)
    /\ current.nextFrame <= 0

\* C9 as stated: after an update whose callback returned false, the next
\* unpaused update returns false and leaves idx on the last frame.  Violated.
C9_HoldIsPermanent ==
    [][(last.op = "update" /\ last.cb = "false" /\ last.ret = "false" /\ Held
          /\ Ticked /\ ~animationpause)
         => /\ last'.ret = "false"
            /\ current'.idx = Num(current.length - 1)]_vars

\* C9 amended: the update in which a plain callback returns false returns
\* false, forces idx to length - 1 and does not restart the countdown; from
\* then on every unpaused update invokes the callback again, and while it
\* returns false the update returns false and the controller stays on hold.
C9_HoldWhileCallbackReturnsFalse ==
    [][/\ (Ticked /\ PlainCallback /\ last'.cb = "false")
          => /\ last'.ret = "false"
             /\ current'.idx = Num(current.length - 1)
             /\ current'.nextFrame = current.nextFrame - last'.dt
             /\ Held'
       /\ (Ticked /\ Held /\ ~animationpause)
          => /\ last'.cb # ""
             /\ (last'.cb = "false" => last'.ret = "false" /\ Held')]_vars

\* a second update in a row has been held by the callback
C9_Witness ==
    /\ last.op = "update" /\ last.cb = "false" /\ last.ret = "false"
    /\ last.from.idx = Num(last.from.length - 1) /\ last.from.nextFrame <= 0
    /\ Held

\* C10: when the wrap invokes a plain callback and it returns anything but
\* false, the update ends with the same animation active at frame 0, the
\* countdown restarted, returns true, and the callback is still installed.
C10_CallbackContinues ==
    [][(Ticked /\ PlainCallback /\ last'.cb \in {"true", "undefined"})
         => /\ last'.ret = "true"
            /\ current'.name = current.name /\ current'.frame = current.frame
            /\ current'.idx = Num(0)
            /\ current'.nextFrame = current.animationspeed
            /\ resetAnim' = resetAnim]_vars

\* the callback returned nothing on a wrap of "walk" and is still installed
C10_Witness ==
    /\ last.op = "update" /\ last.cb = "undefined" /\ last.ret = "true"
    /\ last.from.name = "walk" /\ last.from.idx = Num(1)
    /\ current.name = "walk" /\ current.idx = Num(0) /\ PlainCallback

\* the fields of the controller are what they were before the call
Untouched == UNCHANGED <<anim, current, shared, resetAnim, animationpause, geom>>

\* C11: while paused, update(dt) returns false for every dt, acts on no
\* policy and leaves the index, the countdown, the active animation and the
\* policy as they were: the time is discarded, so playback after a resume
\* goes on from the very state the pause found.
C11_PausedTickDiscarded ==
    [][(Ticked /\ animationpause)
         => /\ last'.ret = "false"
            /\ ~PolicyActed
            /\ Untouched]_vars

\* a paused tick long enough to wrap an animation whose policy is set
C11_Witness ==
    /\ last.op = "update" /\ animationpause /\ last.ret = "false"
    /\ current.length > 1 /\ current.idx = Num(current.length - 1)
    /\ current.nextFrame > 0 /\ current.nextFrame - last.dt <= 0
    /\ resetAnim.kind # "null"

\* C12: while the active animation has exactly one frame, its index is 0,
\* every update returns false and acts on no policy, paused or not, and
\* setAnimationFrame with any index leaves the index at 0.
C12_SingleFrameNeverAdvances ==
    [][current.length = 1
         => /\ current.idx = Num(0)
            /\ (Ticked => /\ last'.ret = "false"
                          /\ ~PolicyActed
                          /\ current' = current)
            /\ (last'.op = "setAnimationFrame" => current'.idx = Num(0))]_vars

\* an unpaused tick of a full duration on the one-frame "walk", policy set
C12_Witness ==
    /\ last.op = "update" /\ ~animationpause /\ last.ret = "false"
    /\ current.length = 1 /\ current.idx = Num(0)
    /\ last.dt >= current.animationspeed
    /\ resetAnim.kind # "null"

Defined == last'.op = "addAnimation"
\* every frame of the atlas, in atlas order
EveryFrame == [j \in 1..AtlasSize |-> j - 1]

\* C13: the controller always has an active animation: init creates
\* "default" from every atlas frame, in atlas order, and makes it active
\* (frame 0, not paused, no policy, countdown 100), and no later call,
\* failing or not, leaves the controller without one.
C13_AlwaysOneActive ==
    /\ current # NoObject
    /\ current.name \in Names
    /\ last.op = "init"
          => /\ current.name = "default"
             /\ current.frame = EveryFrame /\ current.length = AtlasSize
             /\ current.idx = Num(0) /\ geom = 0
             /\ current.nextFrame = 100
             /\ ~animationpause /\ resetAnim = NoPolicy
             /\ anim = [n \in {"default"} |-> current]

\* setCurrentAnimation of an undefined id has failed; "default" is active
C13_Witness ==
    /\ last.op = "setCurrentAnimation" /\ last.ret = "Error"
    /\ last.name = "walk" /\ "walk" \notin DOMAIN anim
    /\ current.name = "default"

\* C14: the active animation is the object stored in this.anim under its
\* name, so that redefining the active animation's name changes the frames
\* the controller plays.  Violated: this.current keeps the replaced object.
C14_ActiveIsStoredEntry ==
    /\ current.name \in DOMAIN anim
    /\ anim[current.name] = current

\* C15: addAnimation under a name other than the active animation's stores
\* an animation under that name, at index 0, and leaves the active
\* animation, its index and countdown, the pause flag, the policy and every
\* other stored animation as they were.
C15_DefineOtherName ==
    [][(Defined /\ last'.name # current.name)
         => /\ DOMAIN anim' = DOMAIN anim \cup {last'.name}
            /\ anim'[last'.name].name = last'.name
            /\ anim'[last'.name].idx = Num(0)
            /\ last'.ret # "Error"
                  => anim'[last'.name].length = Len(anim'[last'.name].frame)
            /\ \A n \in DOMAIN anim \ {last'.name} : anim'[n] = anim[n]
            /\ UNCHANGED <<current, shared, resetAnim, animationpause, geom>>]_vars

\* "walk" has been redefined while "default" was playing, past frame 0 and
\* with a policy set; the former "walk" had been played to its frame 1
C15_Witness ==
    /\ last.op = "addAnimation" /\ last.name = "walk" /\ last.ret = "undefined"
    /\ current.name = "default" /\ current.idx = Num(1)
    /\ resetAnim # NoPolicy
    /\ anim["walk"].length = 1

\* C16: addAnimation with a null or an empty index list defines an animation
\* of every atlas frame, in atlas order.  Violated by the empty list.
C16_NullOrEmptyIsEveryFrame ==
    [][(Defined /\ (last'.index.null \/ last'.index.list = <<>>))
         => /\ anim'[last'.name].frame = EveryFrame
            /\ anim'[last'.name].length = AtlasSize
            /\ anim'[last'.name].length >= 1]_vars

\* C17: setCurrentAnimation with an id that is not defined throws and
\* changes nothing: the active animation, its index and countdown, the
\* pause flag and the policy stored before are what they were.
C17_UnknownNameChangesNothing ==
    [][Selected
         => IF last'.name \in DOMAIN anim
            THEN last'.ret # "Error"
            ELSE last'.ret = "Error" /\ Untouched]_vars

\* the call named an undefined id and a policy other than the stored one,
\* while the active animation was past frame 0 and paused
C17_Witness ==
    /\ last.op = "setCurrentAnimation" /\ last.ret = "Error"
    /\ last.name \notin DOMAIN anim
    /\ last.policy # resetAnim /\ resetAnim # NoPolicy
    /\ current.idx = Num(2) /\ animationpause

\* C18: addAnimation throws if and only if the index list holds a frame
\* name and the sheet has no name table (atlasIndices null): lists of
\* ordinals, and names on an atlas, never throw.
C18_ThrowsIffNameOnSpritesheet ==
    [][Defined
         => (last'.ret = "Error"
               <=> /\ atlasIndices.null
                   /\ \E i \in 1..Len(last'.index.list) :
                          last'.index.list[i].t = "string")]_vars

\* a list whose second entry is a frame name has thrown on a spritesheet
C18_Witness ==
    /\ last.op = "addAnimation" /\ last.ret = "Error"
    /\ atlasIndices.null
    /\ last.index = List(<<N(0), S(1)>>)

\* C19: setAnimationFrame(i) sets the index to i mod length of the active
\* animation (0 if i is absent) and the geometry to that of the frame at
\* that index, touches nothing else, and does the same if called again.
\* Violated on an active animation that has no frame.
C19_SeekSetsIndexAndGeometry ==
    [][last'.op = "setAnimationFrame"
         => /\ current.length > 0
            /\ current'.idx = Num(OrZero(last'.idx).v % current.length)
            /\ geom' = current.frame[current'.idx.v + 1]
            /\ current' = [current EXCEPT !.idx = current'.idx]
            /\ anim' = IF shared THEN [anim EXCEPT ![current.name] = current']
                                 ELSE anim
            /\ UNCHANGED <<shared, resetAnim, animationpause>>
            /\ LET again == setAnimationFrame(Self', last'.idx)
               IN again.current = current' /\ again.geom = geom']_vars

\* C20: an animation defined without a speed gets the sheet's default, 100,
\* one defined with a positive speed gets that speed; the stored speed is
\* positive, and it is the value the countdown is set to by a
\* setCurrentAnimation that returns and by every advancing update.
C20_SpeedOrDefault ==
    [][/\ Defined
          => /\ anim'[last'.name].animationspeed
                  = (IF last'.speed = Absent THEN 100 ELSE last'.speed)
             /\ anim'[last'.name].animationspeed > 0
       /\ (Selected /\ last'.ret = "undefined")
          => /\ current'.animationspeed = anim[last'.name].animationspeed
             /\ current'.nextFrame = current'.animationspeed
       /\ (Ticked /\ last'.ret = "true")
          => current'.nextFrame = current'.animationspeed]_vars

\* "walk", defined without a speed, has been selected: its countdown is 100
C20_Witness ==
    /\ last.op = "setCurrentAnimation" /\ last.ret = "undefined"
    /\ current.name = "walk" /\ shared
    /\ current.animationspeed = 100 /\ current.nextFrame = 100

\* C22: the update in which a plain callback returns false leaves the
\* countdown used up (<= 0); from that hold every unpaused update, whatever
\* its dt >= 0, advances to index 0 and invokes the callback, once, before
\* the index is forced back to the last frame: the callback runs once per
\* update, and the hold ends with the first of them in which the callback
\* returns something other than false (index 0, countdown restarted, true).
C22_CallbackEveryHeldTick ==
    [][/\ (Ticked /\ PlainCallback /\ last'.cb = "false")
          => /\ current'.nextFrame <= 0
             /\ last'.calls = 1 /\ last'.seen.idx = Num(0)
       /\ (Ticked /\ Held /\ ~animationpause)
          => /\ last'.calls = 1
             /\ last'.seen.name = current.name /\ last'.seen.idx = Num(0)
             /\ IF last'.cb = "false"
                THEN /\ last'.ret = "false"
                     /\ current'.idx = Num(current.length - 1)
                     /\ current'.nextFrame <= 0
                     /\ Held'
                ELSE /\ last'.ret = "true"
                     /\ current'.idx = Num(0)
                     /\ current'.nextFrame = current.animationspeed
                     /\ ~Held']_vars

\* a hold has been ended by an update of 0 ms: the callback ran again and
\* returned true
C22_Witness ==
    /\ last.op = "update" /\ last.dt = 0 /\ last.cb = "true" /\ last.ret = "true"
    /\ last.from.length > 1 /\ last.from.idx = Num(last.from.length - 1)
    /\ last.from.nextFrame <= 0
    /\ PlainCallback /\ current.idx = Num(0)

\* C23: one update moves the index by at most one frame however large dt
\* is: an update that returns true without acting on the policy leaves the
\* index at (idx + 1) mod length, one that returns false without acting on
\* it leaves the index alone, and the policy is acted on at most once, by
\* the single step that wraps to index 0.
C23_OneFramePerTick ==
    [][Ticked
         => IF ~Running THEN current' = current
            ELSE LET step == Num((current.idx.v + 1) % current.length)
                 IN /\ last'.calls <= 1
                    /\ ~(last'.chain /\ last'.cb # "")
                    /\ IF PolicyActed
                       THEN /\ step = Num(0)
                            /\ last'.cb # "" => last'.seen.idx = step
                       ELSE IF last'.ret = "true"
                       THEN current'.idx = step
                       ELSE current'.idx = current.idx]_vars

\* an update of 200 ms on "default" (100 ms a frame, three frames) with the
\* countdown at 100: two durations have passed and the index moved by one
C23_Witness ==
    /\ last.op = "update" /\ last.ret = "true"
    /\ last.from.name = "default" /\ last.from.nextFrame = 100
    /\ last.dt >= 2 * last.from.animationspeed
    /\ last.from.idx = Num(0) /\ current.idx = Num(1)

\* C24: the update that makes the chain switch leaves the target active and
\* no policy set; and while no policy is set, an update never changes the
\* active animation, invokes no callback and sets no policy, and an
\* expiring one keeps cycling the active animation (returns true, index
\* (idx + 1) mod length).
C24_ChainIsOneShot ==
    [][/\ (Ticked /\ last'.chain /\ resetAnim.name \in DOMAIN anim)
          => /\ resetAnim' = NoPolicy
             /\ current'.name = resetAnim.name
       /\ (Ticked /\ resetAnim = NoPolicy)
          => /\ resetAnim' = NoPolicy
             /\ current'.name = current.name /\ current'.frame = current.frame
             /\ ~PolicyActed
             /\ (Running /\ current.nextFrame - last'.dt <= 0)
                   => /\ last'.ret = "true"
                      /\ current'.idx = Num((current.idx.v + 1) % current.length)]_vars

\* "walk" has chained into "default": "default" is active with no policy
C24_Witness ==
    /\ last.op = "update" /\ last.chain /\ last.ret = "true"
    /\ last.from.name = "walk" /\ current.name = "default"
    /\ resetAnim = NoPolicy

\* C25: an addAnimation call that throws leaves this.anim as it was before
\* the call.  Violated: the new object is stored before the frames are
\* resolved.
C25_FailedDefineChangesNothing ==
    [][(Defined /\ last'.ret = "Error") => anim' = anim]_vars

\* a callback that calls setCurrentAnimation("default") and then returns
SwitchingCallback == resetAnim = [kind |-> "function", name |-> "default"]

\* C26: the callback runs inside the update that wraps, when the index is
\* already 0 and the countdown, decremented, has not been restarted; when
\* the callback calls setCurrentAnimation(B) and returns false, the update
\* ends with B active on its last frame and returns false.
C26_HoldAppliesToSwitchedAnimation ==
    [][/\ (Ticked /\ last'.cb # "")
          => /\ last'.seen.name = current.name
             /\ last'.seen.idx = Num(0)
             /\ last'.seen.nextFrame = current.nextFrame - last'.dt
             /\ last'.seen.nextFrame <= 0
       /\ (Ticked /\ SwitchingCallback /\ last'.cb = "false")
          => /\ current'.name = "default"
             /\ current' = anim'["default"]
             /\ current'.idx = Num(current'.length - 1)
             /\ last'.ret = "false"]_vars

\* the callback of "walk" switched to "default" and returned false:
\* "default" is held on its last frame
C26_Witness ==
    /\ last.op = "update" /\ last.cb = "false" /\ last.ret = "false"
    /\ last.from.name = "walk" /\ last.seen.name = "walk"
    /\ current.name = "default" /\ current.idx = Num(AtlasSize - 1)

\* what a watch function returns for a capability flag
Supported(flag) == IF flag THEN "true" ELSE "false"

\* C21: watchAccelerometer returns true if hasAccelerometer and false if
\* not, and watchDeviceOrientation returns true if hasDeviceOrientation and
\* false if not, on the first call and on every repeated one.
\* Violated: watchDeviceOrientation returns false on every device.
C21_WatchReturnsSupport ==
    [][/\ last'.op = "watchAccelerometer"
          => last'.ret = Supported(hasAccelerometer)
       /\ last'.op = "watchDeviceOrientation"
          => last'.ret = Supported(hasDeviceOrientation)]_vars

\* the handler of the accelerometer watch is registered, with window or
\* with the Windows 8 sensor
MotionRegistered == listeners["devicemotion"] + listeners["readingchanged"]
\* the handler of the orientation watch is registered with window
RotateRegistered == listeners["deviceorientation"]

\* C27: after any calls of the watch and unwatch functions, on every
\* platform, each handler is registered at most once, and is registered if
\* and only if its initialized flag is true; an unwatch call leaves its
\* handler unregistered and its flag false.
\* Violated on Windows 8, by both accelerometer functions.
C27_RegisteredIffInitialized ==
    [][/\ MotionRegistered' <= 1
       /\ RotateRegistered' <= 1
       /\ accelInitialized' <=> MotionRegistered' = 1
       /\ deviceOrientationInitialized' <=> RotateRegistered' = 1
       /\ last'.op = "unwatchAccelerometer"
          => ~accelInitialized' /\ MotionRegistered' = 0
       /\ last'.op = "unwatchDeviceOrientation"
          => ~deviceOrientationInitialized' /\ RotateRegistered' = 0]_vars

====
